---- MODULE Spec2Model ----
(***************************************************************************)
(* Model of app.py: the draft server.  DraftState is the per-room turn     *)
(* counter and history; ChatSocketHandler keeps the class-level maps       *)
(* waiters and draft_states and reacts to open, on_message and on_close.   *)
(* Tornado runs every handler to completion on one IOLoop thread (no       *)
(* handler yields), so each handler is one atomic action.                  *)
(*                                                                         *)
(* An exception that escapes a handler is recorded in out.raised; the      *)
(* connection stays open until its on_close runs, which may be at once.    *)
(*                                                                         *)
(* Transport: write_message delivers the message it is given unless the    *)
(* transport of the connection is severed, and then it raises.  A          *)
(* transport is severed only between the connection's join and its         *)
(* on_close, stays severed, and delivers no further inbound frame; the     *)
(* writes of open go to the connection that was just accepted.             *)
(*                                                                         *)
(* Not modelled: the 'time' field of events and notices (wall clock), the  *)
(* HTTP MainHandler and the process bootstrap.                             *)
(***************************************************************************)
EXTENDS Integers, Sequences, FiniteSets, TLC

\* ------------------------------------------------------------------ bounds
\* Number of connections whose transport may be severed at the same time.
MaxSevered == 1

\* Commits the two-room specification follows (over both rooms).
MaxCommits == 3

\* Handler objects that may be alive at the same time.
Conns == {1, 2, 3}

\* --------------------------------------------------------------- inputs
\* Room identifiers a client may put in the URL; NoRoomArg is the missing or
\* empty room (falsy in Python).
Rooms == {"r1", "r2"}
NoRoomArg == ""
\* Roles a client may claim: the two sides of the style and an observer.
Roles == {"1", "2", "obs"}
\* Style identifiers a client may pass: the catalogued one and an unknown one.
StyleArgs == {"1", "9"}
\* A sample of the heroes list: the payload of a submission (no handler
\* branches on the payload).
heroes == {"adagio"}

\* Values of the handler attribute self.room besides a room identifier.
Unset == "<unset>"
None == "<None>"

\* ------------------------------------------------------------ draft_styles
draft_styles ==
  [s \in {"1"} |->
     << [index |-> 1, side |-> "1", type |-> "ban"],
        [index |-> 2, side |-> "2", type |-> "ban"],
        [index |-> 3, side |-> "2", type |-> "ban"],
        [index |-> 4, side |-> "1", type |-> "ban"],
        [index |-> 5, side |-> "1", type |-> "pick"],
        [index |-> 6, side |-> "2", type |-> "pick"] >>]

\* --------------------------------------------------------------- DraftState
\* DraftState.__init__: any style string is accepted, no catalogue lookup.
DraftState(style) == [style |-> style, turn |-> 0, history |-> << >>]

get_history(ds) == ds.history

\* A plausible slip: the index is read before the counter is advanced.
get_turn_before(ds) == ds.turn - 1

get_turn(ds) == ds.turn

\* A plausible slip: the counter is advanced twice.
next_turn_twice(ds) == [ds EXCEPT !.turn = ds.turn + 2]

next_turn(ds) == [ds EXCEPT !.turn = ds.turn + 1]

\* A plausible slip: the counter is not advanced with the history.
update_draft_no_turn(ds, event) == [ds EXCEPT !.history = Append(ds.history, event)]

\* update_draft appends the event dict; on_message then sets event['index']
\* on that same dict, so the history entry carries the index (see on_message).
update_draft(ds, event) ==
  LET d == next_turn(ds) IN [d EXCEPT !.history = Append(d.history, event)]

\* draft_styles[self.style] raises KeyError for an uncatalogued style.
StyleKnown(ds) == ds.style \in DOMAIN draft_styles

\* A plausible slip: any side of the style may take any turn.
is_turn_any_side(ds, team) ==
  team \in {draft_styles[ds.style][i].side : i \in DOMAIN draft_styles[ds.style]}

\* draft_styles[self.style][self.turn] raises IndexError once turn reaches the
\* length of the sequence (Python lists are 0-based; TLA+ sequences 1-based).
TurnInRange(ds) == ds.turn + 1 \in DOMAIN draft_styles[ds.style]

is_turn(ds, team) == draft_styles[ds.style][ds.turn + 1].side = team

\* A plausible slip: the draft counts as ended with its last turn committed.
is_ended_at_last(ds) == ds.turn >= Len(draft_styles[ds.style])

is_ended(ds) == ds.turn > Len(draft_styles[ds.style])

\* ------------------------------------------------------------------- state
VARIABLES
  waiters,        \* ChatSocketHandler.waiters: room -> list of {waiter, role}
  draft_states,   \* ChatSocketHandler.draft_states: room -> DraftState
  conn,           \* per handler object: lifecycle, self.room, self.role, transport
  received,       \* per connection: the last replay or update frame its client got
  committers,     \* per room: the self.role of the handler that committed each event
  out             \* what the last handler run did towards the outside

vars == << waiters, draft_states, conn, received, committers, out >>

NewConn == [pc |-> "new", room |-> Unset, role |-> Unset, severed |-> FALSE]

\* Output of a handler run: the handler that ran on_message (0 for the other
\* handlers), the exception that escaped it, the frames written, the waiters
\* whose write failed and was logged, and whether it called self.close().
Quiet ==
  [sender |-> 0, raised |-> "none", sent |-> {}, failed |-> {}, closed |-> FALSE]

NoFrame == [kind |-> "none", events |-> << >>, text |-> ""]

EmptyMap == [k \in {} |-> << >>]

Init ==
  /\ waiters = EmptyMap
  /\ draft_states = EmptyMap
  /\ conn = [c \in Conns |-> NewConn]
  /\ received = [c \in Conns |-> NoFrame]
  /\ committers = [r \in Rooms |-> << >>]
  /\ out = Quiet

\* ------------------------------------------------------------------ frames
UpdateEvent(hero, index) == [type |-> "update", hero |-> hero, index |-> index]

Frame(kind, events, text) == [kind |-> kind, events |-> events, text |-> text]

ErrorFrame(text) == Frame("error", << >>, text)
NoticeFrame(text) == Frame("notice", << >>, text)
UpdateFrame(event) == Frame("update", << event >>, "")
ReplayFrame(history) == Frame("replay", history, "")

\* ------------------------------------------------------------ map helpers
Put(map, key, value) ==
  [k \in DOMAIN map \cup {key} |-> IF k = key THEN value ELSE map[k]]

\* A plausible slip: the emptied list is left in the map.
Del_leaves_empty(map, key) == [map EXCEPT ![key] = << >>]

Del(map, key) == [k \in DOMAIN map \ {key} |-> map[k]]

RolesOf(clients) == {clients[i].role : i \in DOMAIN clients}

WaitersOf(clients) == {clients[i].waiter : i \in DOMAIN clients}

Registered(room) ==
  IF room \in DOMAIN waiters THEN WaitersOf(waiters[room]) ELSE {}

\* ------------------------------------------------------------------- open
\* A plausible slip: the role check is left out.
RoleTaken_never(room, role) == FALSE

\* The role check of open: role in [client['role'] for client in waiters[room]].
RoleTaken(room, role) == role \in RolesOf(waiters[room])

\* A plausible slip: self.room is not reset when the join is refused.
Refused_room_kept(room, role) ==
  [pc |-> "open", room |-> room, role |-> role, severed |-> FALSE]

\* The attributes of a handler whose join was refused: self.room and self.role
\* were assigned, then self.room is set to None.
Refused(room, role) ==
  [pc |-> "open", room |-> None, role |-> role, severed |-> FALSE]

\* A plausible slip: every join creates a fresh DraftState.
NeedsDraftState_always(room) == TRUE

\* A plausible slip: a room without connections gets a fresh DraftState.
NeedsDraftState_when_empty(room) ==
  room \notin DOMAIN waiters \/ room \notin DOMAIN draft_states

\* The last statement of open: if room not in self.draft_states.
NeedsDraftState(room) == room \notin DOMAIN draft_states

\* A plausible slip: the replay leaves out the last committed event.
ReplayOf_short(ds) ==
  IF get_history(ds) = << >> THEN << >>
  ELSE SubSeq(get_history(ds), 1, Len(get_history(ds)) - 1)

\* The message open sends to a joiner that is not the first of its room.
ReplayOf(ds) == get_history(ds)

open(c, room, role, draft_style) ==
  /\ conn[c].pc = "new"
  \* handler objects are interchangeable: a new one takes the lowest free slot
  /\ \A w \in Conns : w < c => conn[w].pc # "new"
  /\ IF room = NoRoomArg
     THEN \* not room: error, close, return before self.room is assigned
          /\ conn' = [conn EXCEPT ![c] = [NewConn EXCEPT !.pc = "open"]]
          /\ out' = [Quiet EXCEPT
                       !.sent = {[to |-> c, frame |-> ErrorFrame("No room specified")]},
                       !.closed = TRUE]
          /\ UNCHANGED << waiters, draft_states, received, committers >>
     ELSE /\ IF room \in DOMAIN waiters
             THEN IF RoleTaken(room, role)
                  THEN /\ conn' = [conn EXCEPT ![c] = Refused(room, role)]
                       /\ out' = [Quiet EXCEPT
                                    !.sent = {[to |-> c,
                                               frame |-> ErrorFrame("Role already specified")]},
                                    !.closed = TRUE]
                       /\ UNCHANGED << waiters, received >>
                  ELSE /\ conn' = [conn EXCEPT ![c] =
                                     [pc |-> "open", room |-> room, role |-> role,
                                      severed |-> FALSE]]
                       /\ waiters' = [waiters EXCEPT ![room] =
                                        Append(@, [waiter |-> c, role |-> role])]
                       /\ LET message == ReplayOf(draft_states[room])
                          IN /\ out' = [Quiet EXCEPT
                                          !.sent = {[to |-> c,
                                                     frame |-> ReplayFrame(message)]}]
                             /\ received' = [received EXCEPT ![c] =
                                               ReplayFrame(message)]
             ELSE /\ conn' = [conn EXCEPT ![c] =
                                [pc |-> "open", room |-> room, role |-> role,
                                 severed |-> FALSE]]
                  /\ waiters' = Put(waiters, room, << [waiter |-> c, role |-> role] >>)
                  /\ out' = Quiet
                  /\ received' = received
          /\ draft_states' = IF NeedsDraftState(room)
                             THEN Put(draft_states, room, DraftState(draft_style))
                             ELSE draft_states
          /\ UNCHANGED committers

\* ----------------------------------------------------- delivery helpers
\* write_message raises on a severed transport.
Writable(c) == ~conn[c].severed

\* A failure that escapes the per-client try block ends the loop at the first
\* severed client (used to test the fault isolation of send_updates).
send_updates_propagating(room, message) ==
  LET clients == waiters[room]
      bad == {i \in DOMAIN clients : ~Writable(clients[i].waiter)}
      upto == IF bad = {} THEN Len(clients) + 1
              ELSE CHOOSE i \in bad : \A j \in bad : i <= j
  IN [delivered |-> {clients[i].waiter : i \in {j \in DOMAIN clients : j < upto}},
      failed |-> {clients[i].waiter : i \in {j \in DOMAIN clients : j = upto}},
      message |-> message]

\* A plausible slip: the loop runs over the waiters of every room.
send_updates_every_room(room, message) ==
  LET all == UNION {WaitersOf(waiters[r]) : r \in DOMAIN waiters}
  IN [delivered |-> {w \in all : Writable(w)},
      failed |-> {w \in all : ~Writable(w)},
      message |-> message]

\* send_updates: one write per client of waiters[room], each in its own
\* try/except: a failing write is logged and the loop goes on.
send_updates(room, message) ==
  LET clients == waiters[room]
  IN [delivered |-> {clients[i].waiter :
                       i \in {j \in DOMAIN clients : Writable(clients[j].waiter)}},
      failed |-> {clients[i].waiter :
                    i \in {j \in DOMAIN clients : ~Writable(clients[j].waiter)}},
      message |-> message]

\* send_update: one write to one waiter, in a try/except.
send_update(waiter, message) ==
  [delivered |-> IF Writable(waiter) THEN {waiter} ELSE {},
   failed |-> IF Writable(waiter) THEN {} ELSE {waiter},
   message |-> message]

Sent(d) == {[to |-> w, frame |-> d.message] : w \in d.delivered}

\* The client side keeps the last frame that carries draft events.
Receive(d) ==
  [w \in Conns |-> IF w \in d.delivered /\ d.message.kind \in {"update", "replay"}
                   THEN d.message
                   ELSE received[w]]

\* -------------------------------------------------------------- on_message
Raise(c, exception) ==
  /\ out' = [Quiet EXCEPT !.sender = c, !.raised = exception]
  /\ UNCHANGED << waiters, draft_states, conn, received, committers >>

on_message(c, message) ==
  /\ conn[c].pc = "open"
  /\ Writable(c)
  /\ LET self == conn[c] IN
     IF self.room = Unset
     THEN Raise(c, "AttributeError")
     ELSE IF self.room \notin DOMAIN draft_states
     THEN Raise(c, "KeyError")
     ELSE LET draft_state == draft_states[self.room] IN
       IF ~StyleKnown(draft_state)
       THEN Raise(c, "KeyError")
       ELSE IF is_ended(draft_state)
       THEN IF self.room \notin DOMAIN waiters
            THEN Raise(c, "KeyError")
            ELSE LET d == send_updates(self.room, NoticeFrame("Draft has ended"))
                 IN /\ out' = [Quiet EXCEPT !.sender = c,
                                 !.sent = Sent(d), !.failed = d.failed,
                                 !.closed = TRUE]
                    /\ received' = Receive(d)
                    /\ UNCHANGED << waiters, draft_states, conn, committers >>
       ELSE IF ~TurnInRange(draft_state)
       THEN Raise(c, "IndexError")
       ELSE IF ~is_turn(draft_state, self.role)
       THEN LET d == send_update(c, NoticeFrame("Not your turn"))
            IN /\ out' = [Quiet EXCEPT !.sender = c,
                            !.sent = Sent(d), !.failed = d.failed]
               /\ received' = Receive(d)
               /\ UNCHANGED << waiters, draft_states, conn, committers >>
       ELSE LET committed == update_draft(draft_state,
                               UpdateEvent(message, get_turn(next_turn(draft_state))))
                event == committed.history[Len(committed.history)]
            IN /\ draft_states' = [draft_states EXCEPT ![self.room] = committed]
               /\ committers' = [committers EXCEPT ![self.room] = Append(@, self.role)]
               /\ IF self.room \notin DOMAIN waiters
                  THEN /\ out' = [Quiet EXCEPT !.sender = c, !.raised = "KeyError"]
                       /\ received' = received
                  ELSE LET d == send_updates(self.room, UpdateFrame(event))
                       IN /\ out' = [Quiet EXCEPT !.sender = c,
                                       !.sent = Sent(d), !.failed = d.failed]
                          /\ received' = Receive(d)
               /\ UNCHANGED << waiters, conn >>

\* ---------------------------------------------------------------- on_close
\* The handler object is gone after on_close: its slot is free again.
on_close(c) ==
  /\ conn[c].pc = "open"
  /\ conn' = [conn EXCEPT ![c] = NewConn]
  /\ received' = [received EXCEPT ![c] = NoFrame]
  /\ UNCHANGED << draft_states, committers >>
  /\ LET self == conn[c] IN
     IF self.room = Unset
     THEN /\ out' = [Quiet EXCEPT !.raised = "AttributeError"]
          /\ waiters' = waiters
     ELSE IF self.room = None
     THEN /\ out' = Quiet
          /\ waiters' = waiters
     ELSE IF self.room \notin DOMAIN waiters
     THEN /\ out' = [Quiet EXCEPT !.raised = "KeyError"]
          /\ waiters' = waiters
     ELSE LET kept == SelectSeq(waiters[self.room],
                                LAMBDA client : client.role # self.role)
          IN /\ out' = Quiet
             /\ waiters' = IF kept = << >>
                           THEN Del(waiters, self.room)
                           ELSE [waiters EXCEPT ![self.room] = kept]

\* ------------------------------------------------------------- environment
\* The transport of a joined connection is severed: from now on every
\* write_message to it raises, until its on_close runs.
sever(c) ==
  /\ conn[c].pc = "open"
  /\ conn[c].room \in Rooms
  /\ Writable(c)
  /\ Cardinality({w \in Conns : conn[w].severed}) < MaxSevered
  /\ conn' = [conn EXCEPT ![c].severed = TRUE]
  /\ out' = Quiet
  /\ UNCHANGED << waiters, draft_states, received, committers >>

\* ---------------------------------------------------------- specifications
\* One room, every style argument, the whole draft.
Next ==
  \/ \E c \in Conns, room \in {"r1", NoRoomArg}, role \in Roles,
        draft_style \in StyleArgs : open(c, room, role, draft_style)
  \/ \E c \in Conns, message \in heroes : on_message(c, message)
  \/ \E c \in Conns : on_close(c)
  \/ \E c \in Conns : sever(c)

Spec == Init /\ [][Next]_vars

\* Two rooms, the catalogued style, the first MaxCommits commits of the rooms.
Commits == Len(committers["r1"]) + Len(committers["r2"])

NextRooms ==
  \/ \E c \in Conns, room \in Rooms, role \in Roles : open(c, room, role, "1")
  \/ \E c \in Conns, message \in heroes :
       Commits < MaxCommits /\ on_message(c, message)
  \/ \E c \in Conns : on_close(c)
  \/ \E c \in Conns : sever(c)

SpecRooms == Init /\ [][NextRooms]_vars

\* ------------------------------------------------------------------ claims
Joined(c) == conn[c].pc = "open" /\ conn[c].room \in DOMAIN draft_states

RoomOf(c) == conn[c].room

StateOf(c) == draft_states[conn[c].room]

StyleLen(ds) == Len(draft_styles[ds.style])

Sides(style) == [k \in DOMAIN draft_styles[style] |-> draft_styles[style][k].side]

EndedNotice == NoticeFrame("Draft has ended")

NotYourTurnNotice == NoticeFrame("Not your turn")

\* C1: for style '1' (N = 6), once N submissions are committed the draft is
\* ended (is_ended() is true), and a further submission of any connection of
\* the room is answered with the 'Draft has ended' notice and the close of the
\* sender: no update, no 'Not your turn' notice, no exception.
C1_SubmissionAfterLastTurnIsDraftEnded ==
  [][\A c \in Conns, message \in heroes :
       ( /\ Joined(c)
         /\ StyleKnown(StateOf(c))
         /\ StateOf(c).turn = StyleLen(StateOf(c))
         /\ on_message(c, message) )
       => /\ is_ended(StateOf(c))
          /\ out'.raised = "none"
          /\ out'.closed
          /\ \E s \in out'.sent : s.frame = EndedNotice
          /\ \A s \in out'.sent : s.frame = EndedNotice]_vars

\* C2: the k-th committed event of a room was submitted by a connection whose
\* role is the side of the k-th turn descriptor of the room's style (for style
\* '1': 1,2,2,1,1,2), so no observer ever commits; and a submission of the
\* side that owns the current turn always commits.
C2_CommittersFollowStyle ==
  /\ [](\A r \in DOMAIN draft_states :
         /\ Len(committers[r]) = Len(draft_states[r].history)
         /\ IF StyleKnown(draft_states[r])
            THEN /\ Len(committers[r]) <= StyleLen(draft_states[r])
                 /\ committers[r] =
                      SubSeq(Sides(draft_states[r].style), 1, Len(committers[r]))
            ELSE committers[r] = << >>)
  /\ [][\A c \in Conns, message \in heroes :
         ( /\ Joined(c)
           /\ StyleKnown(StateOf(c))
           /\ StateOf(c).turn < StyleLen(StateOf(c))
           /\ conn[c].role = Sides(StateOf(c).style)[StateOf(c).turn + 1]
           /\ on_message(c, message) )
         => /\ draft_states'[RoomOf(c)].turn = StateOf(c).turn + 1
            /\ committers'[RoomOf(c)] = Append(committers[RoomOf(c)], conn[c].role)]_vars

\* All six turns of style '1' were committed, by the sides 1,2,2,1,1,2.
C2_Witness ==
  \E r \in DOMAIN draft_states :
    /\ draft_states[r].style = "1"
    /\ draft_states[r].turn = 6
    /\ committers[r] = << "1", "2", "2", "1", "1", "2" >>

\* C3: len(history) == turn in every reachable state; every step leaves a
\* room's DraftState alone or appends exactly one event at the end of its
\* history and adds exactly 1 to its turn; no DraftState disappears.
C3_HistoryMirrorsTurn ==
  /\ [](\A r \in DOMAIN draft_states :
         Len(draft_states[r].history) = draft_states[r].turn)
  /\ [][\A r \in DOMAIN draft_states :
         /\ r \in DOMAIN draft_states'
         /\ \/ draft_states'[r] = draft_states[r]
            \/ /\ draft_states'[r].style = draft_states[r].style
               /\ draft_states'[r].turn = draft_states[r].turn + 1
               /\ Len(draft_states'[r].history) = Len(draft_states[r].history) + 1
               /\ SubSeq(draft_states'[r].history, 1, Len(draft_states[r].history))
                    = draft_states[r].history]_vars

\* Three updates were committed in a room that an observer is connected to.
C3_Witness ==
  \E r \in DOMAIN draft_states :
    /\ draft_states[r].turn = 3
    /\ Len(draft_states[r].history) = 3
    /\ \E c \in Conns : conn[c].room = r /\ conn[c].role = "obs"

Registrations(c) ==
  {r \in DOMAIN waiters : c \in WaitersOf(waiters[r])}

OwnsTurn(c) ==
  /\ TurnInRange(StateOf(c))
  /\ is_turn(StateOf(c), conn[c].role)

Recipients(o) == {s.to : s \in o.sent}

Frames(o) == {s.frame : s \in o.sent}

\* C4: an on_message of a joined connection whose role does not own the
\* current turn, in a draft that is not ended, changes neither the room's
\* DraftState nor any connection set, delivers the 'Not your turn' notice to
\* the sender and delivers nothing to anyone else.
C4_NotYourTurnIsPrivateNotice ==
  [][\A c \in Conns, message \in heroes :
       ( /\ Joined(c)
         /\ StyleKnown(StateOf(c))
         /\ ~is_ended(StateOf(c))
         /\ ~OwnsTurn(c)
         /\ on_message(c, message) )
       => /\ UNCHANGED << draft_states, waiters, received >>
          /\ out'.raised = "none"
          /\ out'.sent = {[to |-> c, frame |-> NotYourTurnNotice]}]_vars

\* C5: an open for a (room, role) that waiters[room] already holds sends the
\* 'Role already specified' error to the new connection and closes it, leaves
\* waiters and draft_states as they were; and the on_close of a connection
\* that got past the role assignment without being registered (the refused
\* one) leaves waiters and draft_states as they were too.
C5_RefusedJoinChangesNothing ==
  /\ [][\A c \in Conns, room \in Rooms, role \in Roles, draft_style \in StyleArgs :
         ( /\ room \in DOMAIN waiters
           /\ role \in RolesOf(waiters[room])
           /\ open(c, room, role, draft_style) )
         => /\ UNCHANGED << waiters, draft_states >>
            /\ out'.sent = {[to |-> c, frame |-> ErrorFrame("Role already specified")]}
            /\ out'.closed
            /\ out'.raised = "none"]_vars
  /\ [][\A c \in Conns :
         ( /\ conn[c].role \in Roles
           /\ Registrations(c) = {}
           /\ on_close(c) )
         => /\ UNCHANGED << waiters, draft_states >>
            /\ out'.raised = "none"]_vars

\* A join was just refused: the role is held by a registered connection and
\* the refused connection is open and unregistered.
C5_Witness ==
  \E c \in Conns, r \in DOMAIN waiters :
    /\ conn[c].pc = "open"
    /\ conn[c].role \in RolesOf(waiters[r])
    /\ Registrations(c) = {}
    /\ out.closed
    /\ out.sent = {[to |-> c, frame |-> ErrorFrame("Role already specified")]}
    /\ draft_states[r].turn > 0

\* C6: waiters[room] holds at most one entry per role and per connection, a
\* connection is registered in at most one room, and every entry belongs to
\* an open connection that carries that room and role.
C6_OneConnectionPerRoomAndRole ==
  /\ \A r \in DOMAIN waiters :
       \A i, j \in DOMAIN waiters[r] :
         i # j => /\ waiters[r][i].role # waiters[r][j].role
                  /\ waiters[r][i].waiter # waiters[r][j].waiter
  /\ \A r \in DOMAIN waiters :
       \A i \in DOMAIN waiters[r] :
         LET w == waiters[r][i].waiter
         IN /\ conn[w].pc = "open"
            /\ conn[w].room = r
            /\ conn[w].role = waiters[r][i].role
  /\ \A c \in Conns : Cardinality(Registrations(c)) <= 1

\* Two connections asked for the same (room, role): one is registered, the
\* other was refused, while a third holds another role of the room.
C6_Witness ==
  \E c, d \in Conns, r \in DOMAIN waiters :
    /\ c # d
    /\ Registrations(c) = {r}
    /\ Registrations(d) = {}
    /\ conn[d].pc = "open"
    /\ conn[d].role = conn[c].role
    /\ Len(waiters[r]) = 2

C8_BroadcastIsolatesFailures ==
  [][\A c \in Conns, message \in heroes :
       ( /\ Joined(c)
         /\ Registrations(c) = {RoomOf(c)}
         /\ StyleKnown(StateOf(c))
         /\ OwnsTurn(c)
         /\ on_message(c, message) )
       => /\ out'.raised = "none"
          /\ Recipients(out') = {w \in Registered(RoomOf(c)) : Writable(w)}
          /\ out'.failed = {w \in Registered(RoomOf(c)) : ~Writable(w)}
          /\ \A f \in Frames(out') : f.kind = "update"
          /\ UNCHANGED << waiters, conn >>]_vars

\* A broadcast just reached two connections of a room while the write to a
\* third, severed one failed; the severed one is still registered.
C8_Witness ==
  \E r \in DOMAIN waiters :
    /\ out.failed # {}
    /\ out.failed \subseteq Registered(r)
    /\ Cardinality(Recipients(out)) = 2
    /\ Recipients(out) \subseteq Registered(r)
    /\ out.raised = "none"

\* C9: the on_close of the last registered connection of a room removes the
\* room from waiters and leaves draft_states as it was; a later first join to
\* that room leaves the retained DraftState as it was, so the draft goes on
\* from the retained turn and history.
C9_DraftStateOutlivesRoom ==
  /\ [][\A c \in Conns :
         ( /\ Registrations(c) # {}
           /\ \A r \in Registrations(c) : Registered(r) = {c}
           /\ on_close(c) )
         => /\ \A r \in Registrations(c) : r \notin DOMAIN waiters'
            /\ draft_states' = draft_states]_vars
  /\ [][\A c \in Conns, room \in Rooms, role \in Roles, draft_style \in StyleArgs :
         ( /\ room \notin DOMAIN waiters
           /\ room \in DOMAIN draft_states
           /\ open(c, room, role, draft_style) )
         => /\ draft_states' = draft_states
            /\ Registered(room)' = {c}]_vars

\* A room was emptied after two commits and the side that owns the third turn
\* joined it again as its first connection: it got no replay and no update,
\* and the retained DraftState still holds the two events.
C9_Witness ==
  \E c \in Conns, r \in DOMAIN waiters :
    /\ Registered(r) = {c}
    /\ Writable(c)
    /\ received[c] = NoFrame
    /\ draft_states[r].turn = 2
    /\ Len(draft_states[r].history) = 2
    /\ conn[c].role = "2"

\* C10 as claimed: a commit delivers the update with the new turn as index to
\* every connection registered in the sender's room, the sender included, and
\* to no connection of another room.
C10_UpdateReachesEveryRegistered ==
  [][\A c \in Conns, message \in heroes :
       ( /\ Joined(c)
         /\ Registrations(c) = {RoomOf(c)}
         /\ StyleKnown(StateOf(c))
         /\ OwnsTurn(c)
         /\ on_message(c, message) )
       => /\ Recipients(out') = Registered(RoomOf(c))
          /\ Frames(out') =
               {UpdateFrame(UpdateEvent(message, draft_states'[RoomOf(c)].turn))}]_vars

\* C10, amended: a commit delivers the update with the new turn as index to
\* every connection registered in the sender's room whose transport is not
\* severed, the sender included, and to no other connection; the write to a
\* severed registered connection fails and is logged.
C10_UpdateReachesEveryWritableRegistered ==
  [][\A c \in Conns, message \in heroes :
       ( /\ Joined(c)
         /\ Registrations(c) = {RoomOf(c)}
         /\ StyleKnown(StateOf(c))
         /\ OwnsTurn(c)
         /\ on_message(c, message) )
       => /\ Recipients(out') = {w \in Registered(RoomOf(c)) : Writable(w)}
          /\ c \in Recipients(out')
          /\ out'.failed = {w \in Registered(RoomOf(c)) : ~Writable(w)}
          /\ draft_states'[RoomOf(c)].turn = StateOf(c).turn + 1
          /\ Frames(out') =
               {UpdateFrame(UpdateEvent(message, draft_states'[RoomOf(c)].turn))}
          /\ \A w \in Conns :
               received'[w] = IF w \in Recipients(out')
                              THEN UpdateFrame(UpdateEvent(message,
                                                 draft_states'[RoomOf(c)].turn))
                              ELSE received[w]]_vars

\* An update was just delivered to the two connections of the sender's room
\* while another room has a registered connection, which got nothing.
C10_Witness ==
  \E r, q \in DOMAIN waiters :
    /\ r # q
    /\ out.sender \in Registered(r)
    /\ Cardinality(Registered(r)) = 2
    /\ Recipients(out) = Registered(r)
    /\ \A f \in Frames(out) : f.kind = "update" /\ f.events[1].index = draft_states[r].turn
    /\ Registered(q) # {}

\* C11: a first join to a room with a style that draft_styles does not hold
\* fails: the connection is not registered in the room and no DraftState is
\* stored for the room.
C11_UnknownStyleAbortsJoin ==
  [][\A c \in Conns, room \in Rooms, role \in Roles, draft_style \in StyleArgs :
       ( /\ room \notin DOMAIN waiters
         /\ room \notin DOMAIN draft_states
         /\ draft_style \notin DOMAIN draft_styles
         /\ open(c, room, role, draft_style) )
       => /\ c \notin Registered(room)'
          /\ room \notin DOMAIN draft_states'
          /\ Frames(out') # {}
          /\ \A f \in Frames(out') : f.kind = "error"]_vars

\* C12: an open without a room sends the 'No room specified' error, closes
\* the connection and registers nothing; that open and the later on_close of
\* the connection leave waiters and draft_states as they were, and the
\* on_close ends without an error.
C12_NoRoomJoinAndCloseChangeNothing ==
  /\ [][\A c \in Conns, role \in Roles, draft_style \in StyleArgs :
         open(c, NoRoomArg, role, draft_style)
         => /\ UNCHANGED << waiters, draft_states >>
            /\ out'.sent = {[to |-> c, frame |-> ErrorFrame("No room specified")]}
            /\ out'.closed
            /\ out'.raised = "none"]_vars
  /\ [][\A c \in Conns :
         ( /\ conn[c].pc = "open"
           /\ conn[c].room = Unset
           /\ on_close(c) )
         => /\ UNCHANGED << waiters, draft_states >>
            /\ out'.raised = "none"]_vars

\* C13: with every turn of the style committed (turn == len(sequence)),
\* is_turn is false for every side, so an on_message ends with a notice to
\* the sender and raises nothing.
C13_LastTurnSubmissionGetsNotice ==
  [][\A c \in Conns, message \in heroes :
       ( /\ Joined(c)
         /\ StyleKnown(StateOf(c))
         /\ StateOf(c).turn = StyleLen(StateOf(c))
         /\ on_message(c, message) )
       => /\ out'.raised = "none"
          /\ c \in Recipients(out')
          /\ \A f \in Frames(out') : f.kind = "notice"
          /\ UNCHANGED draft_states]_vars

\* C14: whenever open takes the first-in-room path (the room is absent from
\* waiters, no replay is sent) the history of the room's DraftState is empty;
\* a joiner that is not the first of its room is always sent the replay.
C14_FirstJoinerSeesEmptyHistory ==
  [][\A c \in Conns, room \in Rooms, role \in Roles, draft_style \in StyleArgs :
       open(c, room, role, draft_style)
       => IF room \notin DOMAIN waiters
          THEN /\ out'.sent = {}
               /\ draft_states'[room].history = << >>
          ELSE role \notin RolesOf(waiters[room])
               => out'.sent =
                    {[to |-> c, frame |-> ReplayFrame(draft_states'[room].history)]}]_vars

\* C15: an open on a room that has a DraftState leaves draft_states as it
\* was, whatever style it passes and whether or not the room still has
\* connections: the style argument is ignored.
C15_LaterStyleArgumentIgnored ==
  [][\A c \in Conns, room \in Rooms, role \in Roles, draft_style \in StyleArgs :
       ( /\ room \in DOMAIN draft_states
         /\ open(c, room, role, draft_style) )
       => draft_states' = draft_states]_vars

\* A room was emptied after its first commit and an observer joined it again
\* as its only connection (no replay, no update since): the DraftState still
\* has the style it was created with and the committed event.
C15_Witness ==
  \E c \in Conns, r \in DOMAIN waiters :
    /\ Registered(r) = {c}
    /\ Writable(c)
    /\ conn[c].role = "obs"
    /\ received[c] = NoFrame
    /\ out.sent = {}
    /\ draft_states[r].style = "1"
    /\ draft_states[r].turn = 1
    /\ Len(draft_states[r].history) = 1

\* Room b is left alone by a step: its connection list and DraftState are
\* what they were and none of its connections is written to.
Untouched(b) ==
  /\ (b \in DOMAIN waiters') = (b \in DOMAIN waiters)
  /\ b \in DOMAIN waiters => waiters'[b] = waiters[b]
  /\ (b \in DOMAIN draft_states') = (b \in DOMAIN draft_states)
  /\ b \in DOMAIN draft_states => draft_states'[b] = draft_states[b]
  /\ committers'[b] = committers[b]
  /\ \A w \in Registered(b) :
       /\ w \notin Recipients(out')
       /\ w \notin out'.failed
       /\ received'[w] = received[w]
       /\ conn'[w] = conn[w]

\* C16: an open on room A, and an on_message or on_close of a connection
\* whose self.room is A, leaves every other room B as it was: B's DraftState,
\* B's connection list, and no frame goes to a connection registered in B.
C16_RoomsAreIsolated ==
  [][/\ \A c \in Conns, room \in Rooms, role \in Roles, draft_style \in StyleArgs :
          open(c, room, role, draft_style)
          => \A b \in Rooms \ {room} : Untouched(b)
     /\ \A c \in Conns, message \in heroes :
          on_message(c, message)
          => \A b \in Rooms \ {conn[c].room} : Untouched(b)
     /\ \A c \in Conns :
          on_close(c)
          => \A b \in Rooms \ {conn[c].room} : Untouched(b)]_vars

\* An update was just broadcast in a room at its second turn while another
\* room, with a registered connection, stays at its first.
C16_Witness ==
  \E r, q \in DOMAIN waiters :
    /\ r # q
    /\ out.sender \in Registered(r)
    /\ Recipients(out) = Registered(r)
    /\ \A f \in Frames(out) : f.kind = "update"
    /\ draft_states[r].turn = 2
    /\ draft_states[q].turn = 1
    /\ received[CHOOSE w \in Registered(q) : TRUE].kind = "update"

\* C17: check and commit of one on_message are one step: an on_message
\* leaves every DraftState alone or commits exactly one event, into the slot
\* turn + 1 of the sender's room, for the side that owns that slot; so the
\* k-th event of every history carries index k: no slot gets two events and
\* no slot is skipped, whatever the order of the submissions.
C17_OneCommitPerSlot ==
  /\ [](\A r \in DOMAIN draft_states :
         \A k \in DOMAIN draft_states[r].history :
           draft_states[r].history[k].index = k)
  /\ [][\A c \in Conns, message \in heroes :
         ( /\ Joined(c)
           /\ on_message(c, message) )
         => \/ draft_states' = draft_states
            \/ /\ \A r \in DOMAIN draft_states \ {RoomOf(c)} :
                    draft_states'[r] = draft_states[r]
               /\ OwnsTurn(c)
               /\ draft_states'[RoomOf(c)].history =
                    Append(StateOf(c).history,
                           UpdateEvent(message, StateOf(c).turn + 1))
               /\ draft_states'[RoomOf(c)].turn = StateOf(c).turn + 1]_vars

\* Both sides are connected, the first slot is committed once, and a further
\* submission of side '1', which does not own the second slot, was refused.
C17_Witness ==
  \E c, d \in Conns, r \in DOMAIN waiters :
    /\ {c, d} \subseteq Registered(r)
    /\ conn[c].role = "1"
    /\ conn[d].role = "2"
    /\ out.sender = c
    /\ out.sent = {[to |-> c, frame |-> NotYourTurnNotice]}
    /\ draft_states[r].turn = 1
    /\ Len(draft_states[r].history) = 1

\* C18: 0 <= turn <= len(sequence) in every state; once turn == len(sequence)
\* no step changes the room's DraftState; so is_ended() is false in every
\* state, and no on_message sends 'Draft has ended' or closes its connection.
C18_TurnStopsAtStyleLength ==
  /\ [](\A r \in DOMAIN draft_states :
         /\ draft_states[r].turn >= 0
         /\ IF StyleKnown(draft_states[r])
            THEN /\ draft_states[r].turn <= StyleLen(draft_states[r])
                 /\ ~is_ended(draft_states[r])
            ELSE draft_states[r].turn = 0)
  /\ [](/\ EndedNotice \notin Frames(out)
        /\ out.sender # 0 => ~out.closed)
  /\ [][\A r \in DOMAIN draft_states :
         ( /\ StyleKnown(draft_states[r])
           /\ draft_states[r].turn = StyleLen(draft_states[r]) )
         => /\ r \in DOMAIN draft_states'
            /\ draft_states'[r] = draft_states[r]]_vars

\* All six turns are committed and a further submission of the observer just
\* ended with the out-of-range error.
C18_Witness ==
  \E c \in Conns, r \in DOMAIN waiters :
    /\ c \in Registered(r)
    /\ conn[c].role = "obs"
    /\ draft_states[r].turn = 6
    /\ out.sender = c
    /\ out.raised = "IndexError"
    /\ out.sent = {}

IndexedAsStyle(r) ==
  \A k \in DOMAIN draft_states[r].history :
    /\ draft_states[r].history[k].index = k
    /\ StyleKnown(draft_states[r])
    /\ k \in DOMAIN draft_styles[draft_states[r].style]
    /\ draft_styles[draft_states[r].style][k].index = k

LastEvent(ds) == ds.history[Len(ds.history)]

\* C19 as claimed: the k-th event of a history carries index k, the index of
\* the style's k-th turn descriptor, and every commit of a room reaches every
\* connection registered in it, so a connection that stays registered gets
\* the updates a+1, ..., b once each, in order.
C19_EveryRegisteredGetsEveryIndex ==
  /\ [](\A r \in DOMAIN draft_states : IndexedAsStyle(r))
  /\ [][\A r \in DOMAIN draft_states :
         draft_states'[r].turn # draft_states[r].turn
         => \A w \in Registered(r) :
              /\ received'[w] = UpdateFrame(LastEvent(draft_states'[r]))
              /\ received'[w].events[1].index = draft_states[r].turn + 1]_vars

\* C19, amended: the k-th event of a history carries index k, the index of
\* the style's k-th turn descriptor; every commit of a room reaches, once,
\* every connection registered in it whose transport is not severed, with
\* the new turn as index; a connection gets an update only in such a step,
\* and its index is one more than that of the update it got before.
C19_WritableRegisteredGetsEveryIndex ==
  /\ [](\A r \in DOMAIN draft_states : IndexedAsStyle(r))
  /\ [][\A r \in DOMAIN draft_states :
         draft_states'[r].turn # draft_states[r].turn
         => \A w \in Registered(r) :
              IF Writable(w)
              THEN /\ received'[w] = UpdateFrame(LastEvent(draft_states'[r]))
                   /\ received'[w].events[1].index = draft_states[r].turn + 1
                   /\ Cardinality({s \in out'.sent : s.to = w}) = 1
              ELSE /\ received'[w] = received[w]
                   /\ w \in out'.failed]_vars
  /\ [][\A w \in Conns :
         ( /\ received'[w] # received[w]
           /\ received'[w].kind = "update" )
         => /\ \E r \in Registrations(w) :
                 /\ draft_states'[r].turn = draft_states[r].turn + 1
                 /\ received'[w].events[1].index = draft_states'[r].turn
            /\ received[w].kind = "update"
                 => received'[w].events[1].index = received[w].events[1].index + 1
            /\ received[w].kind = "replay"
                 => received'[w].events[1].index = Len(received[w].events) + 1]_vars

\* An observer with a working transport just got the update of the sixth
\* turn while a severed connection of the room is still at an earlier one.
C19_Witness ==
  \E c, d \in Conns, r \in DOMAIN waiters :
    /\ {c, d} \subseteq Registered(r)
    /\ conn[c].role = "obs"
    /\ Writable(c)
    /\ draft_states[r].turn = 6
    /\ received[c] = UpdateFrame(LastEvent(draft_states[r]))
    /\ received[c].events[1].index = 6
    /\ [to |-> c, frame |-> received[c]] \in out.sent
    /\ ~Writable(d)
    /\ d \in out.failed

\* C20: every room of waiters has a non-empty connection list and a
\* DraftState; every connection whose self.room is a room is registered in
\* it; so no lookup of a joined connection's room fails: a KeyError only
\* comes from an on_message of a connection without a room, or from the
\* style lookup.
C20_RegistryWellFormed ==
  /\ \A r \in DOMAIN waiters :
       /\ waiters[r] # << >>
       /\ r \in DOMAIN draft_states
  /\ \A c \in Conns :
       (conn[c].pc = "open" /\ conn[c].room \in Rooms)
       => /\ conn[c].room \in DOMAIN waiters
          /\ conn[c].room \in DOMAIN draft_states
          /\ c \in Registered(conn[c].room)
  /\ out.raised = "KeyError"
       => /\ out.sender # 0
          /\ \/ conn[out.sender].room = None
             \/ ~StyleKnown(draft_states[conn[out.sender].room])

\* One room was emptied (its DraftState stays) while another still has one of
\* its two connections after the other closed.
C20_Witness ==
  \E r \in DOMAIN waiters, q \in DOMAIN draft_states :
    /\ q \notin DOMAIN waiters
    /\ draft_states[q].turn = 1
    /\ Len(waiters[r]) = 1
    /\ draft_states[r].turn = 2
====
